---- MODULE Spec2Model ----
(***************************************************************************)
(* Finding lifecycle of cspm-monitor: the scanner Lambda (ingestion into   *)
(* the DynamoDB table) and the archiver Lambda (scan of expired findings,  *)
(* archive to S3, delete from the table), run as interleaved invocations   *)
(* against one table and one bucket.                                       *)
(*                                                                         *)
(* Time is counted in clock ticks, DayLen ticks to a day (the code counts  *)
(* epoch seconds, 86400 to a day).  Python values that are absent or None  *)
(* are the marker strings Absent and Null.  An exception is a value of the *)
(* operator that raises it (raised |-> TRUE).                              *)
(***************************************************************************)
EXTENDS Integers, Sequences, FiniteSets, TLC

\* ------------------------------------------------------------- bounds
DayLen == 2
MaxTicks == 1
PageSize == 1
MaxBatch == 2
MaxOutbox == 2
MaxPages == 3
MaxScans == 4
MaxFindings == 51

\* -------------------------------------------------- program constants
RETENTION_DAYS == 90
DYNAMODB_TTL_DAYS == 90
DeleteBatchSize == 25

\* ------------------------------------------------------------ values
Absent == "<absent>"
Null == "<null>"

Ids == {"f1", "f2"}
\* the order in which a table scan walks the items
IdOrder == <<"f1", "f2">>

StartNow == (RETENTION_DAYS + 1) * DayLen
StartCutoff == StartNow - RETENTION_DAYS * DayLen
InitTtls == {StartCutoff - 1, StartCutoff}
InitSeverities == {"HIGH"}

\* attribute names of a stored item (scanner.py builds it)
ItemAttrs == {"id", "severity", "ttl_timestamp"}

Item(id, severity, ttl) == [id |-> id, severity |-> severity, ttl_timestamp |-> ttl]
NoItem == Item(Absent, Absent, 0)
\* the value process_finding returns on failure
None == Item(Null, Null, 0)

Min(a, b) == IF a < b THEN a ELSE b

RECURSIVE SeqToSet(_)
SeqToSet(s) == IF s = <<>> THEN {} ELSE {Head(s)} \cup SeqToSet(Tail(s))

RECURSIVE SelectSeq2(_, _)
\* the items of s whose ttl_timestamp is below the cutoff, in order
SelectSeq2(s, cutoff_timestamp) ==
    IF s = <<>> THEN <<>>
    ELSE IF Head(s).ttl_timestamp < cutoff_timestamp
         THEN <<Head(s)>> \o SelectSeq2(Tail(s), cutoff_timestamp)
         ELSE SelectSeq2(Tail(s), cutoff_timestamp)

\* ---------------------------------------------------------- responses
MsgNoExpired == "No expired findings to archive"
MsgArchived == "Security findings archived successfully"
MsgPartial == "Partial archival failure - manual intervention required"
MsgArchivalFailedNoDelete == "Archival failed - no findings deleted to prevent data loss"
MsgArchivalFailed == "Archival failed"

MsgArchiveIncomplete == "Failed to archive all findings to S3"
MsgDeleteIncomplete == "Failed to delete all archived findings from DynamoDB"

NoResponse ==
    [statusCode |-> 0, message |-> Absent, error |-> Absent, counts |-> FALSE,
     findings_processed |-> 0, findings_archived |-> 0, findings_deleted |-> 0]

\* a response body that carries the three counts
CountsResponse(status, message, processed, archived, deleted) ==
    [statusCode |-> status, message |-> message,
     error |-> IF message = MsgPartial THEN MsgDeleteIncomplete
               ELSE IF message = MsgArchivalFailedNoDelete THEN MsgArchiveIncomplete
               ELSE Absent,
     counts |-> TRUE,
     findings_processed |-> processed, findings_archived |-> archived,
     findings_deleted |-> deleted]

\* str(e) of a botocore ClientError
ClientErrorText(code, operation) ==
    "An error occurred (" \o code \o ") when calling the " \o operation \o " operation"
\* the error codes a failing get_parameter call reports
SsmErrorCodes == {"ParameterNotFound", "AccessDeniedException"}

\* the body of the handler's except branch: message, error = str(e) and
\* timestamp only
ExceptionResponse(e) ==
    [statusCode |-> 500, message |-> MsgArchivalFailed, error |-> e, counts |-> FALSE,
     findings_processed |-> 0, findings_archived |-> 0, findings_deleted |-> 0]

VARIABLES
    now,        \* the clock
    store,      \* the DynamoDB table: id -> item or NoItem
    cold,       \* the S3 bucket: object key -> archive object
    bucket,     \* S3_ARCHIVE_BUCKET ("" when not configured)
    lastAttr,   \* the attribute the table lists last in an item
    arch,       \* archiver: position and locals of the running lambda_handler
    aresp,      \* archiver: the response of the last run
    ahist,      \* history of the archiver's current run
    archDeleted, \* history: item versions removed by any archiver run
    scan,       \* scanner: position and locals of the running lambda_handler
    sresp,      \* scanner: the response of the last invocation
    shist,      \* history of the scanner's current invocation
    alertCall,  \* send_alert called on its own: the last call and its outcome
    outbox,     \* send_alert called on its own: the messages published
    apiResp,    \* query handler: the response of the last request
    apiHist,    \* query handler: history of the last request
    scan2,      \* a second scanner invocation: position and locals
    sresp2,     \* a second scanner invocation: its response
    shist2,     \* a second scanner invocation: its history
    pager,      \* get_expired_findings called on its own: the table's pages,
                \* the position of the loop and what it has done
    deleter,    \* delete_archived_findings called on its own: the findings,
                \* the position of the loop and what it has issued
    norm,       \* process_finding or calculate_ttl_timestamp called on its
                \* own: the argument and what the call gave
    runs        \* history of the archiver's runs in a sequence of reruns

\* the state of send_alert called on its own, and of the query handler
alertVars == <<alertCall, outbox>>
apiVars == <<apiResp, apiHist>>
scan2Vars == <<scan2, sresp2, shist2>>
unitVars == <<pager, deleter, norm>>

vars == <<now, store, cold, bucket, lastAttr, arch, aresp, ahist, archDeleted,
          scan, sresp, shist, alertVars, apiVars, scan2Vars, unitVars, runs>>

\* ------------------------------------------------------- query handler
\* the five labels of the severity check and of the summary, in its order
ValidSeverities == <<"CRITICAL", "HIGH", "MEDIUM", "LOW", "INFORMATIONAL">>
MinLimit == 1
MaxLimit == 1000
DefaultLimit == "100"
MaxIdLen == 256
FallbackLimit == 1000

MsgInvalidSeverity ==
    "Invalid severity. Must be one of: CRITICAL, HIGH, MEDIUM, LOW, INFORMATIONAL"
MsgInvalidLimit == "Invalid limit. Must be a number between 1 and 1000"
MsgInvalidId == "Invalid finding ID format"
MsgNotFound == "Finding not found"
MsgMethodNotAllowed == "Method not allowed"
MsgInvalidRequest == "Invalid request parameters"
MsgInternal == "Internal server error"
MsgPreflight == "CORS preflight successful"

\* the data of a response body: nothing, one item, a list or the summary
NoData ==
    [kind |-> "none", item |-> [id |-> Absent], items |-> <<>>, total_findings |-> 0,
     severity_breakdown |-> [s \in {} |-> 0]]

\* create_response with the body's fields; success is "true", "false" or
\* Absent, count is -1 when the body has none
ApiResponse(status, success, error, message, data, count, timestamp) ==
    [statusCode |-> status, success |-> success, error |-> error,
     message |-> message, data |-> data, count |-> count, timestamp |-> timestamp]

NoApiResponse == ApiResponse(0, Absent, Absent, Absent, NoData, -1, FALSE)
ErrorResponse(status, error) ==
    ApiResponse(status, "false", error, Absent, NoData, -1, TRUE)

\* a request: the verb, the path and the three query parameters, each a
\* string or Absent
ApiEvent(httpMethod, path, severity, limit, id) ==
    [httpMethod |-> httpMethod, path |-> path, severity |-> severity,
     limit |-> limit, id |-> id]

NoEvent == ApiEvent(Absent, Absent, Absent, Absent, Absent)

\* the request the handler is given and, once called, what it did: get_table
\* calls and the store calls, in order
NoApiHistory ==
    [called |-> FALSE, event |-> NoEvent,
     configLookups |-> 0, configFailed |-> FALSE, storeFailed |-> FALSE,
     countFailed |-> FALSE, failed |-> {}, calls |-> <<>>]
StoreCall(op, severity, limit, key) ==
    [op |-> op, severity |-> severity, limit |-> limit, key |-> key]

RECURSIVE Repeat(_, _)
\* the string s written n times
Repeat(s, n) ==
    IF n = 0 THEN ""
    ELSE IF n % 2 = 0 THEN LET half == Repeat(s, n \div 2) IN half \o half
    ELSE s \o Repeat(s, n - 1)

\* EndsWith testing the start of the path
EndsWith_StartsWith(path, suffix) ==
    /\ Len(path) >= Len(suffix)
    /\ SubSeq(path, 1, Len(suffix)) = suffix

\* str.endswith
EndsWith(path, suffix) ==
    /\ Len(path) >= Len(suffix)
    /\ SubSeq(path, Len(path) - Len(suffix) + 1, Len(path)) = suffix

\* the strings int() reads as an integer, with the integer
IntLiterals ==
    ("0" :> 0) @@ ("1" :> 1) @@ ("2" :> 2) @@ ("100" :> 100) @@ ("1000" :> 1000) @@
    ("1001" :> 1001) @@ ("-1" :> -1) @@ (" 2 " :> 2)

\* int(limit_param): the integer, or ValueError
IntOf(limit_param) ==
    IF limit_param \in DOMAIN IntLiterals
    THEN [raised |-> FALSE, value |-> IntLiterals[limit_param]]
    ELSE [raised |-> TRUE, value |-> 0]

\* ValidateLimit with an out-of-range number clamped into the range
ValidateLimit_Clamped(limit_param) ==
    LET r == IntOf(limit_param)
    IN IF r.raised THEN [raised |-> TRUE, limit |-> 0]
       ELSE IF r.value < MinLimit THEN [raised |-> FALSE, limit |-> MinLimit]
       ELSE IF r.value > MaxLimit THEN [raised |-> FALSE, limit |-> MaxLimit]
       ELSE [raised |-> FALSE, limit |-> r.value]

\* lambda_handler's check of limit: the limit, or the 400 response
ValidateLimit(limit_param) ==
    LET r == IntOf(limit_param)
    IN IF r.raised \/ r.value < MinLimit \/ r.value > MaxLimit
       THEN [raised |-> TRUE, limit |-> 0]
       ELSE [raised |-> FALSE, limit |-> r.value]

\* lambda_handler's check of severity: TRUE when the request is refused
InvalidSeverity(severity) ==
    /\ severity \notin {Absent, ""}
    /\ severity \notin SeqToSet(ValidSeverities)

\* InvalidId without the length check
InvalidId_EmptyOnly(finding_id) == finding_id = ""

\* lambda_handler's check of the id: TRUE when the request is refused
InvalidId(finding_id) == finding_id = "" \/ Len(finding_id) > MaxIdLen

\* Decimal values leave the handler as floats
Float(n) == [float |-> n]
JsonItem(item) ==
    [id |-> item.id, severity |-> item.severity,
     ttl_timestamp |-> Float(item.ttl_timestamp)]

\* the first n elements of s
Take(s, n) == SubSeq(s, 1, Min(n, Len(s)))

\* the items of the table in the order of its walk
TableItems(table) ==
    SelectSeq([n \in 1..Len(IdOrder) |-> table[IdOrder[n]]], LAMBDA it : it # NoItem)

\* table.get_item
GetItem(table, key) == IF key \in Ids THEN table[key] ELSE NoItem

\* IndexQuery without the key condition
IndexQuery_AnySeverity(table, severity) == TableItems(table)

\* table.query on SeverityTimestampIndex
IndexQuery(table, severity) ==
    SelectSeq(TableItems(table), LAMBDA it : it.severity = severity)

\* table.scan with Limit: the first limit items of the walk are read
TableScan(table, limit) == Take(TableItems(table), limit)

RECURSIVE SumSeq(_)
SumSeq(s) == IF s = <<>> THEN 0 ELSE Head(s) + SumSeq(Tail(s))

\* get_table with the error of the parameter lookup dropped
get_table_NeverFails(ssm) == [raised |-> FALSE]

\* get_table: get_ssm_parameter, then the table resource
get_table(ssm) == [raised |-> ssm # "ok"]

\* what a function of the query handler hands back: the error raised or the
\* data, with the get_table calls and store calls it made
Outcome(raised, data, count, lookups, calls) ==
    [raised |-> raised, data |-> data, count |-> count, lookups |-> lookups,
     calls |-> calls]

\* get_finding_by_id: the item, None (kind "none"), or the ClientError
get_finding_by_id(finding_id, table, ssm, res) ==
    LET call == StoreCall("get_item", Absent, 0, finding_id)
        item == GetItem(table, finding_id)
    IN IF get_table(ssm).raised THEN Outcome(TRUE, NoData, -1, 1, <<>>)
       ELSE IF res # "ok" THEN Outcome(TRUE, NoData, -1, 1, <<call>>)
       ELSE IF item = NoItem THEN Outcome(FALSE, NoData, -1, 1, <<call>>)
       ELSE Outcome(FALSE, [NoData EXCEPT !.kind = "item", !.item = JsonItem(item)],
                    -1, 1, <<call>>)

\* query_findings_by_severity: the index query for a severity, else the scan
query_findings_by_severity(severity, limit, table, ssm, res) ==
    LET bySeverity == severity \notin {Absent, ""}
        call == IF bySeverity THEN StoreCall("query", severity, limit, Absent)
                ELSE StoreCall("scan", Absent, limit, Absent)
        found == IF bySeverity THEN Take(IndexQuery(table, severity), limit)
                 ELSE SelectSeq(TableScan(table, limit),
                                LAMBDA it : it.severity # Absent)
        items == [n \in 1..Len(found) |-> JsonItem(found[n])]
    IN IF get_table(ssm).raised THEN Outcome(TRUE, NoData, -1, 1, <<>>)
       ELSE IF res # "ok" THEN Outcome(TRUE, NoData, -1, 1, <<call>>)
       ELSE Outcome(FALSE, [NoData EXCEPT !.kind = "list", !.items = items],
                    Len(items), 1, <<call>>)

\* FallbackSeverity without the default
FallbackSeverity_AsIs(item) == item.severity

\* the severity an item is counted under by the fallback scan
FallbackSeverity(item) == IF item.severity = Absent THEN "UNKNOWN" ELSE item.severity

\* CountQuery with the failure of the query left out
CountQuery_IgnoresFailure(table, severity, failing) == Len(IndexQuery(table, severity))

\* what one pass of the loop over the severities adds to total_findings: the
\* Count of the query, nothing when the query raises ClientError
CountQuery(table, severity, failing) ==
    IF severity \in failing THEN 0 ELSE Len(IndexQuery(table, severity))

\* get_findings_summary: failing is the set of severities whose count query
\* raises ClientError, res the behaviour of the fallback scan
get_findings_summary(table, ssm, failing, res) ==
    LET queries == [n \in 1..Len(ValidSeverities) |->
                       StoreCall("query", ValidSeverities[n], 0, Absent)]
        counts == [n \in 1..Len(ValidSeverities) |->
                      CountQuery(table, ValidSeverities[n], failing)]
        total == SumSeq(counts)
        counted == {n \in 1..Len(ValidSeverities) : counts[n] > 0}
        severity_counts ==
            [sev \in {ValidSeverities[n] : n \in counted} |->
                counts[CHOOSE n \in counted : ValidSeverities[n] = sev]]
        scanCall == StoreCall("scan", Absent, FallbackLimit, Absent)
        items == TableScan(table, FallbackLimit)
        scanned == {FallbackSeverity(items[n]) : n \in 1..Len(items)}
        fallback_counts ==
            [sev \in scanned |->
                Cardinality({n \in 1..Len(items) : FallbackSeverity(items[n]) = sev})]
    IN IF get_table(ssm).raised THEN Outcome(TRUE, NoData, -1, 1, <<>>)
       ELSE IF total # 0
       THEN Outcome(FALSE, [NoData EXCEPT !.kind = "summary",
                                          !.total_findings = total,
                                          !.severity_breakdown = severity_counts],
                    -1, 1, queries)
       ELSE IF res # "ok" THEN Outcome(TRUE, NoData, -1, 1, Append(queries, scanCall))
       ELSE Outcome(FALSE, [NoData EXCEPT !.kind = "summary",
                                          !.total_findings = Len(items),
                                          !.severity_breakdown = fallback_counts],
                    -1, 1, Append(queries, scanCall))

\* IsGet accepting every verb but OPTIONS
IsGet_AnyVerb(http_method) == http_method # "OPTIONS"

\* lambda_handler's "if http_method == 'GET'"
IsGet(http_method) == http_method = "GET"

\* lambda_handler of api.py: the response, with the get_table calls and the
\* store calls made on the way
Handled(resp, lookups, calls) == [resp |-> resp, lookups |-> lookups, calls |-> calls]

api_lambda_handler(event, table, ssm, res, failing) ==
    LET http_method == IF event.httpMethod = Absent THEN "" ELSE event.httpMethod
        path == IF event.path = Absent THEN "" ELSE event.path
        limit_param == IF event.limit = Absent THEN DefaultLimit ELSE event.limit
        lim == ValidateLimit(limit_param)
        byId == get_finding_by_id(event.id, table, ssm, res)
        list == query_findings_by_severity(event.severity, lim.limit, table, ssm, res)
        summary == get_findings_summary(table, ssm, failing, res)
        Answer(o, notFound) ==
            IF o.raised
            THEN Handled(ErrorResponse(500, MsgInternal), o.lookups, o.calls)
            ELSE IF notFound
            THEN Handled(ErrorResponse(404, MsgNotFound), o.lookups, o.calls)
            ELSE Handled(ApiResponse(200, "true", Absent, Absent, o.data, o.count, TRUE),
                         o.lookups, o.calls)
    IN IF http_method = "OPTIONS"
       THEN Handled(ApiResponse(200, Absent, Absent, MsgPreflight, NoData, -1, FALSE),
                    0, <<>>)
       ELSE IF IsGet(http_method) /\ EndsWith(path, "/findings")
       THEN IF InvalidSeverity(event.severity)
            THEN Handled(ErrorResponse(400, MsgInvalidSeverity), 0, <<>>)
            ELSE IF lim.raised
            THEN Handled(ErrorResponse(400, MsgInvalidLimit), 0, <<>>)
            ELSE IF event.id # Absent
            THEN IF InvalidId(event.id)
                 THEN Handled(ErrorResponse(400, MsgInvalidId), 0, <<>>)
                 ELSE Answer(byId, byId.data.kind = "none")
            ELSE Answer(list, FALSE)
       ELSE IF IsGet(http_method) /\ EndsWith(path, "/summary")
       THEN Answer(summary, FALSE)
       ELSE IF IsGet(http_method) /\ EndsWith(path, "/health")
       THEN Handled(ApiResponse(200, Absent, Absent, Absent,
                                [NoData EXCEPT !.kind = "health"], -1, TRUE), 0, <<>>)
       ELSE Handled(ErrorResponse(405, MsgMethodNotAllowed), 0, <<>>)

\* the requests the query handler is given
ApiSeverities == {Absent, "", "CRITICAL", "LOW", "BOGUS", "critical"}
ApiLimits == {Absent, "0", "1", "2", "1000", "1001", "-1", "abc", "", " 2 "}
ApiIds == {Absent, "", "f1", "f2", "zz", Repeat("x", MaxIdLen), Repeat("x", MaxIdLen + 1)}
ApiEvents ==
    {ApiEvent("GET", "/findings", sv, l, i) :
        sv \in ApiSeverities, l \in ApiLimits, i \in ApiIds} \cup
    {ApiEvent(m, p, Absent, Absent, Absent) :
        m \in {"GET", "OPTIONS", "POST", "PUT", "DELETE", Absent},
        p \in {"/prod/findings", "/summary", "/health", "/other", Absent,
               "/findings/", "/summary/daily", "/healthz", ""}} \cup
    {ApiEvent(m, "/findings", sv, l, i) :
        m \in {"OPTIONS", "POST", "PUT", "DELETE", Absent},
        sv \in {"CRITICAL", "BOGUS"}, l \in {"1", "abc"}, i \in {Absent, "f1", ""}}
\* one request per function that resolves the store configuration
ProbeEvents ==
    {ApiEvent("GET", "/findings", Absent, Absent, "f1"),
     ApiEvent("GET", "/findings", "CRITICAL", "1", Absent),
     ApiEvent("GET", "/summary", Absent, Absent, Absent)}
\* the sets of severities whose count query fails
FailingSets == {{}, {"CRITICAL"}, SeqToSet(ValidSeverities)}

\* ------------------------------------------------------- collaborators
\* ssm.get_parameter: the value, or a ClientError
SsmResults == {"ok", "ClientError"}
\* table.scan, s3.put_object, a batch writer's flush
CallResults == {"ok", "error"}

\* ------------------------------------------------------------ archiver
ArchIdle ==
    [pc |-> "idle", started |-> 0, cutoff_timestamp |-> 0, expired_findings |-> <<>>,
     scanPos |-> 0, archived_count |-> 0, deleted_count |-> 0, delPos |-> 0]

\* the locals are gone once the handler has returned
ArchDone == [ArchIdle EXCEPT !.pc = "done"]

NoHistory ==
    [configResolved |-> FALSE, scanIssued |-> FALSE, scanned |-> FALSE, found |-> 0,
     archiveReturned |-> FALSE, archived |-> 0, s3Written |-> FALSE,
     deleteIssued |-> FALSE, removed |-> 0, ingestedSinceScan |-> {}]

\* one page of table.scan with the ttl_timestamp filter: the next PageSize
\* items of the walk are read, those below the cutoff are returned, and
\* LastEvaluatedKey is present while items remain
ScanPage(table, cutoff_timestamp, pos) ==
    LET last == Min(pos + PageSize, Len(IdOrder))
        read == [i \in 1..(last - pos) |-> table[IdOrder[pos + i]]]
        present == SelectSeq(read, LAMBDA it : it # NoItem)
    IN [Items |-> SelectSeq2(present, cutoff_timestamp),
        LastEvaluatedKey |-> IF last < Len(IdOrder) THEN last ELSE 0,
        hasLastEvaluatedKey |-> last < Len(IdOrder)]

\* the archive object's key: the timestamped name, then overwritten by the
\* loop variable of "for key, value in finding.items()"
TimestampKey(t) == [kind |-> "timestamp", name |-> "security-findings-archive", at |-> t]
AttrKey(a) == [kind |-> "attribute", name |-> a, at |-> 0]
ArchiveKey(findings, t, last) ==
    IF findings = <<>> THEN TimestampKey(t) ELSE AttrKey(last)

\* the archive object; run is history: the start time of the run that wrote it
ArchiveObject(findings, t, run) ==
    [archived_at |-> t, total_findings |-> Len(findings),
     retention_days |-> RETENTION_DAYS, findings |-> findings, run |-> run]

PutObject(objects, key, body) ==
    [k \in DOMAIN objects \cup {key} |-> IF k = key THEN body ELSE objects[k]]

\* archive_findings_to_s3: the count returned, or the error raised
archive_findings_to_s3(findings, bucket_name, objects, t, last, putResult, run) ==
    IF bucket_name = ""
    THEN [raised |-> FALSE, count |-> 0, objects |-> objects, wrote |-> FALSE]
    ELSE IF putResult = "ok"
    THEN [raised |-> FALSE, count |-> Len(findings),
          objects |-> PutObject(objects, ArchiveKey(findings, t, last),
                                ArchiveObject(findings, t, run)),
          wrote |-> TRUE]
    ELSE [raised |-> TRUE, count |-> 0, objects |-> objects, wrote |-> FALSE]

\* NothingExpired with the test dropped
NothingExpired_Never(expired_findings) == FALSE

\* lambda_handler's test after the scan
NothingExpired(expired_findings) == expired_findings = <<>>

\* ArchivalSucceeded with the comparison dropped
ArchivalSucceeded_Always(count, expired_findings) == TRUE

\* lambda_handler's gate before the delete phase
ArchivalSucceeded(count, expired_findings) == count = Len(expired_findings)

\* ArchivalFailureResponse reporting the found count as deleted
ArchivalFailureResponse_FoundAsDeleted(expired_findings, count) ==
    CountsResponse(500, MsgArchivalFailedNoDelete, Len(expired_findings), count,
                   Len(expired_findings))

\* lambda_handler's response when the gate is closed
ArchivalFailureResponse(expired_findings, count) ==
    CountsResponse(500, MsgArchivalFailedNoDelete, Len(expired_findings), count, 0)

\* lambda_handler's response after the delete phase returned
DeletionResponse(expired_findings, count, deleted) ==
    IF deleted = Len(expired_findings)
    THEN CountsResponse(200, MsgArchived, Len(expired_findings), count, deleted)
    ELSE CountsResponse(500, MsgPartial, Len(expired_findings), count, deleted)

\* DeleteIds with the deletes dropped
DeleteIds_None(table, ids) == table

\* the table after the batch writer's deletes
DeleteIds(table, ids) == [i \in Ids |-> IF i \in ids THEN NoItem ELSE table[i]]

\* get_ssm_parameter, then the cutoff
ArchiverBegin ==
    /\ arch.pc \in {"idle", "done"}
    /\ \E ssm \in SsmResults :
        IF ssm = "ok"
        THEN /\ arch' = [ArchIdle EXCEPT !.pc = "scan", !.started = now,
                           !.cutoff_timestamp = now - RETENTION_DAYS * DayLen]
             /\ aresp' = NoResponse
             /\ ahist' = [NoHistory EXCEPT !.configResolved = TRUE]
        ELSE /\ arch' = ArchDone
             /\ \E code \in SsmErrorCodes :
                    aresp' = ExceptionResponse(ClientErrorText(code, "GetParameter"))
             /\ ahist' = NoHistory
    /\ UNCHANGED <<now, store, cold, bucket, lastAttr, archDeleted, scan, sresp, shist>>
    /\ UNCHANGED <<alertVars, apiVars, scan2Vars, unitVars>>

\* a run of the archiver
ArchiverStart ==
    /\ ArchiverBegin
    /\ UNCHANGED runs

\* what a sequence of runs keeps of the run before: when the current and the
\* previous run started, whether the previous run returned 200, whether an
\* earlier run returned 500
NoRuns == [started |-> 0, prevStarted |-> 0, afterSuccess |-> FALSE, failedBefore |-> FALSE]

\* a run of the archiver that follows another
RerunStart ==
    /\ ArchiverBegin
    /\ runs' = [started |-> now, prevStarted |-> runs.started,
                afterSuccess |-> arch.pc = "done" /\ aresp.statusCode = 200,
                failedBefore |-> runs.failedBefore
                                    \/ (arch.pc = "done" /\ aresp.statusCode = 500)]

\* get_expired_findings, one table.scan per step; after the last page the
\* handler tests for nothing expired
ArchiverScan ==
    /\ arch.pc = "scan"
    /\ \E res \in CallResults :
        LET page == ScanPage(store, arch.cutoff_timestamp, arch.scanPos)
            items == arch.expired_findings \o page.Items
        IN IF res = "error"
           THEN /\ arch' = ArchDone
                /\ aresp' = ExceptionResponse(
                       ClientErrorText("ProvisionedThroughputExceededException", "Scan"))
                /\ ahist' = [ahist EXCEPT !.scanIssued = TRUE]
           ELSE IF page.hasLastEvaluatedKey
           THEN /\ arch' = [arch EXCEPT !.expired_findings = items,
                                        !.scanPos = page.LastEvaluatedKey]
                /\ ahist' = [ahist EXCEPT !.scanIssued = TRUE]
                /\ UNCHANGED aresp
           ELSE /\ ahist' = [ahist EXCEPT !.scanIssued = TRUE, !.scanned = TRUE,
                                          !.found = Len(items)]
                /\ IF NothingExpired(items)
                   THEN /\ arch' = ArchDone
                        /\ aresp' = CountsResponse(200, MsgNoExpired, 0, 0, 0)
                   ELSE /\ arch' = [arch EXCEPT !.expired_findings = items,
                                                !.scanPos = Len(IdOrder),
                                                !.pc = "archive"]
                        /\ UNCHANGED aresp
    /\ UNCHANGED <<now, store, cold, bucket, lastAttr, archDeleted, scan, sresp, shist>>
    /\ UNCHANGED <<alertVars, apiVars, scan2Vars, unitVars, runs>>

\* archive_findings_to_s3, then the gate
ArchiverArchive ==
    /\ arch.pc = "archive"
    /\ \E putResult \in CallResults :
        LET r == archive_findings_to_s3(arch.expired_findings, bucket, cold, now,
                                        lastAttr, putResult, arch.started)
        IN /\ cold' = r.objects
           /\ IF r.raised
              THEN /\ arch' = ArchDone
                   /\ aresp' = ExceptionResponse(ClientErrorText("AccessDenied", "PutObject"))
                   /\ ahist' = [ahist EXCEPT !.s3Written = r.wrote]
              ELSE /\ ahist' = [ahist EXCEPT !.s3Written = r.wrote,
                                             !.archiveReturned = TRUE,
                                             !.archived = r.count]
                   /\ IF ~ArchivalSucceeded(r.count, arch.expired_findings)
                      THEN /\ arch' = ArchDone
                           /\ aresp' = ArchivalFailureResponse(arch.expired_findings, r.count)
                      ELSE IF arch.expired_findings = <<>>
                      THEN /\ arch' = ArchDone
                           /\ aresp' = DeletionResponse(arch.expired_findings, r.count, 0)
                      ELSE /\ arch' = [arch EXCEPT !.archived_count = r.count,
                                                   !.pc = "delete"]
                           /\ UNCHANGED aresp
    /\ UNCHANGED <<now, store, bucket, lastAttr, archDeleted, scan, sresp, shist>>
    /\ UNCHANGED <<alertVars, apiVars, scan2Vars, unitVars, runs>>

\* delete_archived_findings, one batch writer (at most DeleteBatchSize
\* findings) per step.  The writer buffers one delete per finding, keyed by
\* id, and flushes on exit; a flush that fails raises after the table took
\* any part of the batch.
ArchiverDelete ==
    /\ arch.pc = "delete"
    /\ \E res \in CallResults :
        LET last == Min(arch.delPos + DeleteBatchSize, Len(arch.expired_findings))
            batch == {arch.expired_findings[i].id : i \in (arch.delPos + 1)..last}
            deleted == arch.deleted_count + (last - arch.delPos)
        IN \E done \in SUBSET batch :
            /\ res = "ok" => done = batch
            /\ res = "error" => done # batch
            /\ store' = DeleteIds(store, done)
            /\ ahist' = [ahist EXCEPT
                           !.deleteIssued = TRUE,
                           !.removed = @ + Cardinality({i \in done : store[i] # NoItem})]
            /\ archDeleted' = archDeleted \cup
                    {[item |-> store[i], run |-> arch.started] :
                        i \in {j \in done : store[j] # NoItem}}
            /\ IF res = "error"
               THEN /\ arch' = ArchDone
                    /\ aresp' = ExceptionResponse(
                           ClientErrorText("ProvisionedThroughputExceededException",
                                           "BatchWriteItem"))
               ELSE IF last = Len(arch.expired_findings)
               THEN /\ arch' = ArchDone
                    /\ aresp' = DeletionResponse(arch.expired_findings,
                                                 arch.archived_count, deleted)
               ELSE /\ arch' = [arch EXCEPT !.deleted_count = deleted, !.delPos = last]
                    /\ UNCHANGED aresp
    /\ UNCHANGED <<now, cold, bucket, lastAttr, scan, sresp, shist>>
    /\ UNCHANGED <<alertVars, apiVars, scan2Vars, unitVars, runs>>

\* ------------------------------------------------------------- scanner
\* ScannerNames with timedelta imported as well
ScannerNames_WithTimedelta ==
    {"json", "os", "boto3", "logging", "datetime", "timezone", "timedelta",
     "Decimal", "ClientError", "logger", "dynamodb", "securityhub", "sns", "ssm",
     "DYNAMODB_TABLE_PARAM", "SNS_TOPIC_ARN_PARAM", "DYNAMODB_TTL_DAYS"}

\* the names scanner.py binds at module level: its imports, its clients and
\* its settings (timedelta is not among the names imported from datetime)
ScannerNames ==
    {"json", "os", "boto3", "logging", "datetime", "timezone", "Decimal",
     "ClientError", "logger", "dynamodb", "securityhub", "sns", "ssm",
     "DYNAMODB_TABLE_PARAM", "SNS_TOPIC_ARN_PARAM", "DYNAMODB_TTL_DAYS"}

\* a raw finding: Id and Label are a string, Absent or Null; Severity is
\* "dict", Absent or Null; Resources is Absent or the list's length
RawFinding(id, severity, label, resources) ==
    [kind |-> "dict", Id |-> id, Severity |-> severity, Label |-> label,
     Resources |-> resources]
\* a finding that is None
NullFinding == [RawFinding(Absent, Absent, Absent, Absent) EXCEPT !.kind = "null"]

Labels == {"CRITICAL", "HIGH", "MEDIUM", "LOW", "INFORMATIONAL", "Critical", "BOGUS"}
AllRawFindings ==
    {NullFinding} \cup
    {RawFinding(id, "dict", l, r) :
        id \in Ids \cup {"", Absent, Null}, l \in Labels \cup {Absent, Null},
        r \in {Absent, "0", "1", "2"}} \cup
    {RawFinding(id, sv, Absent, r) :
        id \in Ids \cup {"", Absent, Null}, sv \in {Absent, Null},
        r \in {Absent, "0", "1", "2"}}

\* the raw finding has no usable identifier
BadId(finding) == finding.kind = "null" \/ finding.Id \in {"", Absent, Null}
\* the severities a stored record may carry
StoredSeverities == {"CRITICAL", "HIGH", "MEDIUM", "LOW", "INFORMATIONAL", "UNKNOWN"}
\* the raw finding carries a label that is none of them
OddSeverity(finding) ==
    finding.kind = "dict" /\ finding.Severity = "dict"
        /\ finding.Label \notin StoredSeverities \cup {Absent}

\* the raw finding has an identifier and a severity label
WellFormed(finding) ==
    /\ ~BadId(finding)
    /\ finding.Severity = "dict"
    /\ finding.Label \notin {Absent, Null}
    /\ finding.Resources # "0"

\* midnight UTC of the day of t
Midnight(t) == t - (t % DayLen)

\* calculate_ttl_timestamp with every name it uses bound
calculate_ttl_timestamp_Bound(days_from_now, t) ==
    [raised |-> FALSE, value |-> t - (t % DayLen) + days_from_now * DayLen]

\* calculate_ttl_timestamp: the value, or the NameError of an unbound name
calculate_ttl_timestamp(days_from_now, t) ==
    IF {"datetime", "timezone", "timedelta"} \subseteq ScannerNames
    THEN [raised |-> FALSE, value |-> Midnight(t) + days_from_now * DayLen]
    ELSE [raised |-> TRUE, value |-> 0]

\* the Resources list of a raw finding, by its length
ResourceList(resources) ==
    IF resources = "1" THEN <<[Type |-> "AwsEc2Instance", Id |-> "i-123"]>>
    ELSE IF resources = "2" THEN <<[Type |-> "AwsEc2Instance", Id |-> "i-123"],
                                   [Type |-> "AwsS3Bucket", Id |-> "my-bucket"]>>
    ELSE <<>>

\* finding.get('Resources', [{}])[0].get('Type', '') and the same for 'Id':
\* the default [{}] stands in for a missing key only, and [][0] raises
FirstResource(finding) ==
    IF finding.Resources = Absent
    THEN [raised |-> FALSE, resource_type |-> "", resource_id |-> ""]
    ELSE IF ResourceList(finding.Resources) = <<>>
    THEN [raised |-> TRUE, resource_type |-> Absent, resource_id |-> Absent]
    ELSE [raised |-> FALSE,
          resource_type |-> ResourceList(finding.Resources)[1].Type,
          resource_id |-> ResourceList(finding.Resources)[1].Id]

\* process_finding: the item, or None when anything in it raised
process_finding(finding, t) ==
    LET finding_id == IF finding.Id = Absent THEN "" ELSE finding.Id
        severity == IF finding.Severity = Absent \/ finding.Label = Absent
                    THEN "INFORMATIONAL" ELSE finding.Label
        ttl == calculate_ttl_timestamp(DYNAMODB_TTL_DAYS, t)
        raised == \/ finding.kind = "null"      \* None has no get
                  \/ finding.Severity = Null    \* None has no get
                  \/ finding.Resources = "0"    \* [][0]
                  \/ ttl.raised
    IN IF raised THEN None ELSE Item(finding_id, severity, ttl.value)

\* lambda_handler's "if not item"
NotItem(item) == item = None

\* table.put_item: ok, a ClientError, or another error (a timeout); the
\* table rejects a key that is empty or not a string
PutResults == {"ok", "ClientError", "error"}
put_item(item, result) == IF item.id \notin Ids THEN "ClientError" ELSE result

\* AlertSeverities with MEDIUM alerted on as well
AlertSeverities_WithMedium == {"CRITICAL", "HIGH", "MEDIUM"}

\* the severities lambda_handler and send_alert alert on
AlertSeverities == {"CRITICAL", "HIGH"}

\* send_alert with the error of the topic lookup or of the publish call let through
send_alert_Propagates(severity, finding_id, topicResult, publishResult) ==
    [raised |-> severity \in {"CRITICAL", "HIGH"}
                  /\ (topicResult # "ok" \/ publishResult # "ok"),
     attempted |-> severity \in {"CRITICAL", "HIGH"},
     topicResolved |-> topicResult = "ok", published |-> <<>>]

\* send_alert: for an alerted severity the topic is resolved and the message
\* published; whatever raises inside is caught and logged, nothing is returned
send_alert(severity, finding_id, topicResult, publishResult) ==
    LET attempted == severity \in AlertSeverities
        published == attempted /\ topicResult = "ok" /\ publishResult = "ok"
    IN [raised |-> FALSE, attempted |-> attempted,
        topicResolved |-> attempted /\ topicResult = "ok",
        published |-> IF published
                      THEN <<[severity |-> severity, finding_id |-> finding_id]>>
                      ELSE <<>>]

\* an event: source is a string or Absent; detail is the findings list under
\* detail.findings; Records (when present) lists sub-messages, each with an
\* eventSource, a body that parses or not, and the findings in the body
Event(source, detail, hasRecords, records, findings) ==
    [source |-> source, detail |-> detail, hasRecords |-> hasRecords,
     Records |-> records, findings |-> findings]
SqsRecord(eventSource, body, findings) ==
    [eventSource |-> eventSource, body |-> body, findings |-> findings]

\* the sub-messages of an event: its records delivered by the queue
SubMessages(event) == SelectSeq(event.Records, LAMBDA rec : rec.eventSource = "aws:sqs")

RECURSIVE FindingIds(_)
\* the ids of the findings of a list of records
FindingIds(records) ==
    IF records = <<>> THEN {}
    ELSE {Head(records).findings[n].Id : n \in 1..Len(Head(records).findings)}
            \cup FindingIds(Tail(records))

RECURSIVE FirstSqs_Union(_)
\* FirstSqs taking the findings of every aws:sqs record
FirstSqs_Union(records) ==
    IF records = <<>> THEN [raised |-> FALSE, findings |-> <<>>]
    ELSE IF Head(records).eventSource = "aws:sqs"
         THEN IF Head(records).body = "json"
              THEN [raised |-> FirstSqs_Union(Tail(records)).raised,
                    findings |-> Head(records).findings
                                    \o FirstSqs_Union(Tail(records)).findings]
              ELSE [raised |-> TRUE, findings |-> <<>>]
         ELSE FirstSqs_Union(Tail(records))

RECURSIVE FirstSqs(_)
\* the for/else over event['Records']: the first aws:sqs record decides
FirstSqs(records) ==
    IF records = <<>> THEN [raised |-> FALSE, findings |-> <<>>]
    ELSE IF Head(records).eventSource = "aws:sqs"
         THEN IF Head(records).body = "json"
              THEN [raised |-> FALSE, findings |-> Head(records).findings]
              ELSE [raised |-> TRUE, findings |-> <<>>]
         ELSE FirstSqs(Tail(records))

\* lambda_handler's choice of the findings list
ResolveFindings(event) ==
    IF event.source = "aws.securityhub"
    THEN [raised |-> FALSE, findings |-> event.detail]
    ELSE IF event.hasRecords
    THEN FirstSqs(event.Records)
    ELSE [raised |-> FALSE, findings |-> event.findings]

\* which branch of lambda_handler's choice the event takes: "matched" when it
\* yields a findings list that is not empty, "unmatched" when no accepted
\* shape carries findings, "unreadable" when the first aws:sqs record's body
\* does not parse
EventShape(event) ==
    LET sqs == SelectSeq(event.Records, LAMBDA rec : rec.eventSource = "aws:sqs")
    IN IF event.source = "aws.securityhub"
       THEN IF event.detail = <<>> THEN "unmatched" ELSE "matched"
       ELSE IF event.hasRecords
       THEN IF sqs = <<>> THEN "unmatched"
            ELSE IF Head(sqs).body # "json" THEN "unreadable"
            ELSE IF Head(sqs).findings = <<>> THEN "unmatched" ELSE "matched"
       ELSE IF event.findings = <<>> THEN "unmatched" ELSE "matched"

\* the raw findings and events the invocations of this model are given
GoodCritical == RawFinding("f1", "dict", "CRITICAL", Absent)
GoodLow == RawFinding("f2", "dict", "LOW", "1")
NoIdLow == RawFinding(Absent, "dict", "LOW", Absent)
OddLabel == RawFinding("f2", "dict", "Critical", Absent)
SpecFindings == {GoodCritical, NoIdLow}
Batches == UNION {[1..n -> SpecFindings] : n \in 0..MaxBatch}
Events ==
    {Event(Absent, <<>>, FALSE, <<>>, b) : b \in Batches} \cup
    {Event("aws.securityhub", <<GoodCritical>>, FALSE, <<>>, <<>>),
     Event(Absent, <<>>, TRUE,
           <<SqsRecord("aws:sqs", "json", <<GoodLow>>),
             SqsRecord("aws:sqs", "json", <<GoodCritical>>)>>, <<>>),
     Event(Absent, <<>>, TRUE, <<SqsRecord("aws:sqs", "malformed", <<>>)>>, <<>>),
     Event("aws.events", <<GoodCritical>>, FALSE, <<>>, <<>>),
     Event(Absent, <<>>, TRUE, <<SqsRecord("aws:sns", "json", <<GoodCritical>>)>>, <<>>),
     Event("aws.securityhub", <<OddLabel>>, FALSE, <<>>, <<>>)}

ScanIdle ==
    [pc |-> "idle", findings |-> <<>>, findings_processed |-> 0, findings_stored |-> 0]
ScanDone == [ScanIdle EXCEPT !.pc = "done"]
ScanRaised == [ScanIdle EXCEPT !.pc = "raised"]

NoScanResponse == [statusCode |-> 0, findings_processed |-> 0, findings_stored |-> 0]
ScanResponse(processed, stored) ==
    [statusCode |-> 200, findings_processed |-> processed, findings_stored |-> stored]

NoScanHistory ==
    [configResolved |-> FALSE, shape |-> "none", subMessages |-> 0, first |-> 0,
     laterIds |-> {}, resolved |-> 0, badIds |-> 0, oddSeverities |-> 0,
     wellFormed |-> FALSE, putsIssued |-> 0,
     badIdPuts |-> 0, puts |-> 0, alertPuts |-> 0, putFailed |-> FALSE,
     alerts |-> <<>>, ids |-> {}]

\* NextStored counting a finding that was skipped
NextStored_CountsSkipped(stored, item, putResult) ==
    IF NotItem(item) \/ putResult = "ok" THEN stored + 1 ELSE stored

\* findings_stored after one pass of the loop
NextStored(stored, item, putResult) ==
    IF NotItem(item) THEN stored
    ELSE IF putResult = "ok" THEN stored + 1 ELSE stored

\* what table.put_item can do for the item process_finding returned
PutOutcomes(item) ==
    IF NotItem(item) THEN {"none"} ELSE {put_item(item, r) : r \in PutResults}

\* send_alert: get_ssm_parameter and sns.publish, any error swallowed
AlertOutcomes(alert) ==
    IF alert THEN {"sent", "failed"} ELSE {"none"}

\* get_ssm_parameter, then the findings list; an empty list returns at once.
\* sc, rs, hs are the invocation's position, response and history, scN, rsN,
\* hsN their next values
ScannerStartWith(events, sc, rs, hs, scN, rsN, hsN) ==
    /\ sc.pc \in {"idle", "done", "raised"}
    /\ \E ssm \in SsmResults :
        IF ssm # "ok"
        THEN /\ scN = ScanRaised
             /\ rsN = NoScanResponse
             /\ hsN = NoScanHistory
        ELSE \E event \in events :
            LET r == ResolveFindings(event)
                queued == event.source # "aws.securityhub" /\ event.hasRecords
                subs == IF queued THEN SubMessages(event) ELSE <<>>
            IN IF r.raised
               THEN /\ scN = ScanRaised
                    /\ rsN = NoScanResponse
                    /\ hsN = [NoScanHistory EXCEPT !.configResolved = TRUE,
                                                    !.shape = EventShape(event)]
               ELSE /\ hsN = [NoScanHistory EXCEPT
                                   !.configResolved = TRUE,
                                   !.shape = EventShape(event),
                                   !.subMessages = Len(subs),
                                   !.first = IF subs = <<>> THEN 0
                                             ELSE Len(Head(subs).findings),
                                   !.laterIds = IF subs = <<>> THEN {}
                                                ELSE FindingIds(Tail(subs))
                                                        \ FindingIds(<<Head(subs)>>),
                                   !.resolved = Len(r.findings),
                                   !.badIds = Cardinality({i \in 1..Len(r.findings) : BadId(r.findings[i])}),
                                   !.oddSeverities = Cardinality({i \in 1..Len(r.findings) : OddSeverity(r.findings[i])}),
                                   !.wellFormed = \A i \in 1..Len(r.findings) : WellFormed(r.findings[i])]
                    /\ IF r.findings = <<>>
                       THEN /\ scN = ScanDone
                            /\ rsN = ScanResponse(0, 0)
                       ELSE /\ scN = [ScanIdle EXCEPT !.pc = "loop", !.findings = r.findings]
                            /\ rsN = NoScanResponse

\* one pass of the loop over the findings: process_finding, put_item,
\* send_alert; after the last finding the handler returns
ScannerStepOf(sc, rs, hs, scN, rsN, hsN) ==
    /\ sc.pc = "loop"
    /\ LET finding == Head(sc.findings)
           rest == Tail(sc.findings)
           item == process_finding(finding, now)
           processed == sc.findings_processed + 1
       IN \E put \in PutOutcomes(item) :
          \E sent \in AlertOutcomes(put = "ok" /\ item.severity \in AlertSeverities) :
           LET stored == NextStored(sc.findings_stored, item, put)
           IN
           /\ store' = IF put = "ok" THEN [store EXCEPT ![item.id] = item] ELSE store
           /\ hsN = [hs EXCEPT
                          !.putsIssued = IF put = "none" THEN @ ELSE @ + 1,
                          !.badIdPuts = IF put # "none" /\ BadId(finding) THEN @ + 1 ELSE @,
                          !.puts = IF put = "ok" THEN @ + 1 ELSE @,
                          !.alertPuts = IF put = "ok" /\ item.severity \in {"CRITICAL", "HIGH"}
                                        THEN @ + 1 ELSE @,
                          !.putFailed = @ \/ put \in {"ClientError", "error"},
                          !.ids = IF WellFormed(finding) THEN @ \cup {finding.Id} ELSE @,
                          !.alerts = IF sent # "none"
                                     THEN Append(@, [severity |-> item.severity,
                                                     finding_id |-> item.id,
                                                     result |-> sent])
                                     ELSE @]
           /\ ahist' = IF arch.pc \in {"archive", "delete"} /\ WellFormed(finding)
                          /\ put \notin {"ClientError", "error"}
                       THEN [ahist EXCEPT !.ingestedSinceScan = @ \cup {finding.Id}]
                       ELSE ahist
           /\ IF put = "error"
              THEN /\ scN = ScanRaised
                   /\ rsN = NoScanResponse
              ELSE IF rest = <<>>
              THEN /\ scN = ScanDone
                   /\ rsN = ScanResponse(processed, stored)
              ELSE /\ scN = [sc EXCEPT !.findings = rest,
                                           !.findings_processed = processed,
                                           !.findings_stored = stored]
                   /\ rsN = rs

\* an invocation given one of the events of this model
ScannerStartOf(sc, rs, hs, scN, rsN, hsN) ==
    ScannerStartWith(Events, sc, rs, hs, scN, rsN, hsN)

\* the scanner's invocations, one after the other
ScannerStart ==
    /\ ScannerStartOf(scan, sresp, shist, scan', sresp', shist')
    /\ UNCHANGED <<now, store, cold, bucket, lastAttr, arch, aresp, ahist, archDeleted>>
    /\ UNCHANGED <<alertVars, apiVars, scan2Vars, unitVars, runs>>

ScannerStep ==
    /\ ScannerStepOf(scan, sresp, shist, scan', sresp', shist')
    /\ UNCHANGED <<now, cold, bucket, lastAttr, arch, aresp, archDeleted>>
    /\ UNCHANGED <<alertVars, apiVars, scan2Vars, unitVars, runs>>

\* a second invocation of the scanner running at the same time
Scanner2Start ==
    /\ ScannerStartOf(scan2, sresp2, shist2, scan2', sresp2', shist2')
    /\ UNCHANGED <<now, store, cold, bucket, lastAttr, arch, aresp, ahist, archDeleted>>
    /\ UNCHANGED <<scan, sresp, shist, alertVars, apiVars, unitVars, runs>>

Scanner2Step ==
    /\ ScannerStepOf(scan2, sresp2, shist2, scan2', sresp2', shist2')
    /\ UNCHANGED <<now, cold, bucket, lastAttr, arch, aresp, archDeleted>>
    /\ UNCHANGED <<scan, sresp, shist, alertVars, apiVars, unitVars, runs>>

\* events delivered by the queue: one or more sub-messages, a record of
\* another source among them or not
GoodHigh == RawFinding("f2", "dict", "HIGH", "2")
QueueEvents ==
    {Event(Absent, <<>>, TRUE, recs, extra) :
        recs \in {<<SqsRecord("aws:sqs", "json", <<GoodLow>>),
                    SqsRecord("aws:sqs", "json", <<GoodCritical>>)>>,
                  <<SqsRecord("aws:sqs", "json", <<GoodCritical, GoodCritical>>),
                    SqsRecord("aws:sqs", "json", <<GoodHigh>>),
                    SqsRecord("aws:sqs", "json", <<GoodCritical>>)>>,
                  <<SqsRecord("aws:sqs", "json", <<>>),
                    SqsRecord("aws:sqs", "json", <<GoodCritical, GoodHigh>>)>>,
                  <<SqsRecord("aws:sns", "json", <<GoodLow>>),
                    SqsRecord("aws:sqs", "json", <<GoodCritical>>),
                    SqsRecord("aws:sqs", "json", <<GoodHigh>>)>>,
                  <<SqsRecord("aws:sqs", "json", <<GoodCritical>>),
                    SqsRecord("aws:sqs", "malformed", <<>>)>>,
                  <<SqsRecord("aws:sqs", "json", <<GoodHigh>>)>>},
        extra \in {<<>>, <<GoodLow>>}}

\* an invocation by the queue
ScannerStartQueued ==
    /\ ScannerStartWith(QueueEvents, scan, sresp, shist, scan', sresp', shist')
    /\ UNCHANGED <<now, store, cold, bucket, lastAttr, arch, aresp, ahist, archDeleted>>
    /\ UNCHANGED <<alertVars, apiVars, scan2Vars, unitVars, runs>>

\* --------------------------------------------------------------- clock
Tick ==
    /\ now < StartNow + MaxTicks
    /\ now' = now + 1
    /\ UNCHANGED <<store, cold, bucket, lastAttr, arch, aresp, ahist, archDeleted,
                   scan, sresp, shist>>
    /\ UNCHANGED <<alertVars, apiVars, scan2Vars, unitVars, runs>>

\* ----------------------------------------------- send_alert on its own
NoAlertCall ==
    [called |-> FALSE, severity |-> Absent, finding_id |-> Absent,
     topicResult |-> "ok", publishResult |-> "ok", raised |-> FALSE]

\* one call of send_alert, its arguments and the collaborators' behaviour
\* drawn from small sets
SendAlert ==
    /\ Len(outbox) < MaxOutbox
    /\ \E severity \in Labels \cup {"UNKNOWN"}, finding_id \in Ids,
          topicResult \in CallResults, publishResult \in CallResults :
        LET r == send_alert(severity, finding_id, topicResult, publishResult)
        IN /\ alertCall' = [called |-> TRUE, severity |-> severity,
                            finding_id |-> finding_id, topicResult |-> topicResult,
                            publishResult |-> publishResult, raised |-> r.raised]
           /\ outbox' = outbox \o r.published
    /\ UNCHANGED <<now, store, cold, bucket, lastAttr, arch, aresp, ahist, archDeleted,
                   scan, sresp, shist, apiVars, scan2Vars, unitVars, runs>>

\* ------------------------------------------------- query handler actions
\* one of the count queries among the calls raised ClientError
CountFailed(calls, failing) ==
    \E n \in 1..Len(calls) :
        calls[n].op = "query" /\ calls[n].limit = 0 /\ calls[n].severity \in failing

\* TableAfter with get_item taking the item out of the table
TableAfter_GetRemoves(table, call) ==
    [i \in Ids |-> IF call.op \in {"get_item", "delete_item"} /\ i = call.key
                   THEN NoItem ELSE table[i]]

\* the table after a store call: delete_item removes the item of the key;
\* query, scan and get_item read
TableAfter(table, call) ==
    [i \in Ids |-> IF call.op = "delete_item" /\ i = call.key THEN NoItem ELSE table[i]]

RECURSIVE TableAfterAll(_, _)
\* the table after the store calls of a request, in order
TableAfterAll(table, calls) ==
    IF calls = <<>> THEN table
    ELSE TableAfterAll(TableAfter(table, Head(calls)), Tail(calls))

\* the severities whose count query among the calls raised ClientError
FailedCounts(calls, failing) ==
    {calls[n].severity : n \in {k \in 1..Len(calls) :
        calls[k].op = "query" /\ calls[k].limit = 0 /\ calls[k].severity \in failing}}

\* the pending request is answered: the whole of lambda_handler
ApiRequest ==
    /\ ~apiHist.called
    /\ apiHist.event # NoEvent
    /\ \E ssm \in SsmResults, res \in CallResults, failing \in FailingSets :
        LET r == api_lambda_handler(apiHist.event, store, ssm, res, failing)
        IN /\ apiResp' = r.resp
           /\ apiHist' = [called |-> TRUE, event |-> apiHist.event,
                          configLookups |-> r.lookups,
                          configFailed |-> r.lookups > 0 /\ ssm # "ok",
                          storeFailed |-> r.calls # <<>> /\ r.resp.statusCode = 500,
                          countFailed |-> CountFailed(r.calls, failing),
                          failed |-> FailedCounts(r.calls, failing),
                          calls |-> r.calls]
           /\ store' = TableAfterAll(store, r.calls)
    /\ UNCHANGED <<now, cold, bucket, lastAttr, arch, aresp, ahist, archDeleted,
                   scan, sresp, shist, alertVars, scan2Vars, unitVars, runs>>

\* -------------------------------------- get_expired_findings on its own
\* the table as the scan sees it: its pages (the ids of the expired items on
\* each) and how the last page says that it is the last: LastEvaluatedKey
\* absent, or present with the value None
PageContents == {<<>>, <<"f1">>, <<"f2">>}
PagedTables ==
    {[pages |-> p, end |-> e] :
        p \in UNION {[1..n -> PageContents] : n \in 1..MaxPages}, e \in {Absent, Null}}

\* the response of table.scan for page n
PageResponse(table, n) ==
    [Items |-> table.pages[n],
     hasLastEvaluatedKey |-> n < Len(table.pages) \/ table.end = Null,
     LastEvaluatedKey |-> IF n < Len(table.pages) THEN n ELSE 0,
     nullKey |-> n = Len(table.pages)]

PagerIdle ==
    [pc |-> "idle", table |-> [pages |-> <<>>, end |-> Absent], key |-> 0,
     nullKey |-> FALSE, items |-> <<>>, scans |-> 0, failed |-> FALSE]
\* get_expired_findings is called: nothing scanned yet
PagerCalled(table) == [PagerIdle EXCEPT !.pc = "scan", !.table = table]

RECURSIVE Flatten(_)
\* the items of all pages, in order
Flatten(pages) == IF pages = <<>> THEN <<>> ELSE Head(pages) \o Flatten(Tail(pages))

\* one table.scan of get_expired_findings and the test of the while loop.
\* A scan given ExclusiveStartKey=None either is refused by the client
\* (parameter validation) or is served as a scan from the start.
GetExpiredScan ==
    /\ pager.pc = "scan"
    /\ pager.scans < MaxScans
    /\ \E res \in CallResults, onNull \in {"refused", "restart"} :
        LET n == IF pager.nullKey THEN 1 ELSE pager.key + 1
            response == PageResponse(pager.table, n)
        IN IF res = "error"
           THEN pager' = [pager EXCEPT !.pc = "raised", !.scans = @ + 1, !.failed = TRUE]
           ELSE IF pager.nullKey /\ onNull = "refused"
           THEN pager' = [pager EXCEPT !.pc = "raised"]
           ELSE pager' = [pager EXCEPT
                            !.scans = @ + 1,
                            !.items = @ \o response.Items,
                            !.key = response.LastEvaluatedKey,
                            !.nullKey = response.hasLastEvaluatedKey /\ response.nullKey,
                            !.pc = IF response.hasLastEvaluatedKey THEN "scan" ELSE "done"]
    /\ UNCHANGED <<now, store, cold, bucket, lastAttr, arch, aresp, ahist, archDeleted,
                   scan, sresp, shist, alertVars, apiVars, scan2Vars, deleter, norm, runs>>

\* ---------------------------------- delete_archived_findings on its own
\* the findings handed to delete_archived_findings: n records of distinct ids
FindingNo(k) == [id |-> k]
FindingLists == {[k \in 1..n |-> FindingNo(k)] : n \in 0..MaxFindings}

\* DeleteChunk taking all the remaining findings
DeleteChunk_Rest(findings, i) == SubSeq(findings, i + 1, Len(findings))

\* findings[i:i+25]
DeleteChunk(findings, i) ==
    SubSeq(findings, i + 1, Min(i + DeleteBatchSize, Len(findings)))

DeleterIdle ==
    [pc |-> "idle", findings |-> <<>>, i |-> 0, deleted_count |-> 0,
     writers |-> 0, deletes |-> <<>>, largest |-> 0]
DeleterCalled(findings) == [DeleterIdle EXCEPT !.pc = "loop", !.findings = findings]

\* one pass of the loop over range(0, len(findings), 25): a batch writer, a
\* delete_item per finding of the chunk, the flush on exit; after the last
\* chunk the function returns deleted_count
DeleteBatch ==
    /\ deleter.pc = "loop"
    /\ \E res \in CallResults :
        LET batch == DeleteChunk(deleter.findings, deleter.i)
            keys == [k \in 1..Len(batch) |-> batch[k].id]
            next == deleter.i + DeleteBatchSize
        IN IF deleter.i >= Len(deleter.findings)
           THEN deleter' = [deleter EXCEPT !.pc = "done"]
           ELSE deleter' = [deleter EXCEPT
                              !.writers = @ + 1,
                              !.deletes = @ \o keys,
                              !.deleted_count = @ + Len(batch),
                              !.largest = IF Len(batch) > @ THEN Len(batch) ELSE @,
                              !.i = next,
                              !.pc = IF res = "error" THEN "raised"
                                     ELSE IF next >= Len(deleter.findings) THEN "done"
                                     ELSE "loop"]
    /\ UNCHANGED <<now, store, cold, bucket, lastAttr, arch, aresp, ahist, archDeleted,
                   scan, sresp, shist, alertVars, apiVars, scan2Vars, pager, norm, runs>>

\* ------------------- process_finding, calculate_ttl_timestamp on their own
NoTtl == [raised |-> FALSE, value |-> 0]
NormIdle ==
    [pc |-> "idle", finding |-> NullFinding, days_from_now |-> 0, item |-> None,
     resource_type |-> Absent, resource_id |-> Absent, ttl |-> NoTtl]
\* process_finding is called with a raw finding
FindingGiven(finding) == [NormIdle EXCEPT !.pc = "finding", !.finding = finding]
\* calculate_ttl_timestamp is called with a number of days
DaysGiven(days_from_now) == [NormIdle EXCEPT !.pc = "days", !.days_from_now = days_from_now]
\* the numbers of days calculate_ttl_timestamp is given
DayCounts == {0, 1, 7, DYNAMODB_TTL_DAYS}
\* the times of the calls: midnight and later in the day
CallTimes == {StartNow + k : k \in 0..(DayLen + MaxTicks)}

\* one call of process_finding: the item returned, and the resource fields
\* the item carries
ProcessFinding ==
    /\ norm.pc = "finding"
    /\ LET item == process_finding(norm.finding, now)
           resource == FirstResource(norm.finding)
       IN norm' = [norm EXCEPT
                     !.pc = "normalized",
                     !.item = item,
                     !.resource_type = IF NotItem(item) THEN Absent
                                       ELSE resource.resource_type,
                     !.resource_id = IF NotItem(item) THEN Absent
                                     ELSE resource.resource_id]
    /\ UNCHANGED <<now, store, cold, bucket, lastAttr, arch, aresp, ahist, archDeleted,
                   scan, sresp, shist, alertVars, apiVars, scan2Vars, pager, deleter, runs>>

\* one call of calculate_ttl_timestamp
CalculateTtl ==
    /\ norm.pc = "days"
    /\ norm' = [norm EXCEPT !.pc = "calculated",
                            !.ttl = calculate_ttl_timestamp(norm.days_from_now, now)]
    /\ UNCHANGED <<now, store, cold, bucket, lastAttr, arch, aresp, ahist, archDeleted,
                   scan, sresp, shist, alertVars, apiVars, scan2Vars, pager, deleter, runs>>

\* ------------------------------------------------------- specification
InitItems == {Item(i, sv, t) : i \in Ids, sv \in InitSeverities, t \in InitTtls}

InitStores ==
    {s \in [Ids -> {NoItem} \cup InitItems] : \A i \in Ids : s[i] # NoItem => s[i].id = i}

Init ==
    /\ now = StartNow
    /\ store \in InitStores
    /\ cold = [k \in {} |-> ArchiveObject(<<>>, 0, 0)]
    /\ bucket \in {"", "cspm-archive"}
    /\ lastAttr \in ItemAttrs
    /\ arch = ArchIdle
    /\ aresp = NoResponse
    /\ ahist = NoHistory
    /\ archDeleted = {}
    /\ scan = ScanIdle
    /\ sresp = NoScanResponse
    /\ shist = NoScanHistory
    /\ alertCall = NoAlertCall
    /\ outbox = <<>>
    /\ scan2 = ScanIdle
    /\ sresp2 = NoScanResponse
    /\ shist2 = NoScanHistory
    /\ apiResp = NoApiResponse
    /\ apiHist = NoApiHistory
    /\ pager = PagerIdle
    /\ deleter = DeleterIdle
    /\ norm = NormIdle
    /\ runs = NoRuns

Next ==
    \/ ArchiverStart
    \/ ArchiverScan
    \/ ArchiverArchive
    \/ ArchiverDelete
    \/ ScannerStart
    \/ ScannerStep
    \/ Tick

Spec == Init /\ [][Next]_vars

\* the handlers at rest, the table empty
InitAtRest ==
    /\ Init
    /\ store = [i \in Ids |-> NoItem]
    /\ bucket = "cspm-archive"
    /\ lastAttr = "ttl_timestamp"

NextAlert == SendAlert

\* the tables the query handler is run against
ApiSeverityValues == {"CRITICAL", "LOW", "BOGUS", Absent}
ApiStores ==
    {t \in [Ids -> {NoItem} \cup {Item(i, sv, StartCutoff) : i \in Ids, sv \in ApiSeverityValues}] :
        \A i \in Ids : t[i] # NoItem => t[i].id = i}

InitApi ==
    /\ now = StartNow
    /\ store \in ApiStores
    /\ cold = [k \in {} |-> ArchiveObject(<<>>, 0, 0)]
    /\ bucket = "cspm-archive"
    /\ lastAttr = "ttl_timestamp"
    /\ arch = ArchIdle
    /\ aresp = NoResponse
    /\ ahist = NoHistory
    /\ archDeleted = {}
    /\ scan = ScanIdle
    /\ sresp = NoScanResponse
    /\ shist = NoScanHistory
    /\ alertCall = NoAlertCall
    /\ outbox = <<>>
    /\ scan2 = ScanIdle
    /\ sresp2 = NoScanResponse
    /\ shist2 = NoScanHistory
    /\ apiResp = NoApiResponse
    /\ apiHist \in {[NoApiHistory EXCEPT !.event = e] : e \in ApiEvents}
    /\ pager = PagerIdle
    /\ deleter = DeleterIdle
    /\ norm = NormIdle
    /\ runs = NoRuns

NextApi == ApiRequest

SpecApi == InitApi /\ [][NextApi]_vars

\* the three handlers against one table: one expired item, one request
InitSystem ==
    /\ now = StartNow
    /\ store = [i \in Ids |-> IF i = "f1" THEN Item(i, "HIGH", StartCutoff - 1) ELSE NoItem]
    /\ cold = [k \in {} |-> ArchiveObject(<<>>, 0, 0)]
    /\ bucket = "cspm-archive"
    /\ lastAttr = "ttl_timestamp"
    /\ arch = ArchIdle
    /\ aresp = NoResponse
    /\ ahist = NoHistory
    /\ archDeleted = {}
    /\ scan = ScanIdle
    /\ sresp = NoScanResponse
    /\ shist = NoScanHistory
    /\ alertCall = NoAlertCall
    /\ outbox = <<>>
    /\ scan2 = ScanIdle
    /\ sresp2 = NoScanResponse
    /\ shist2 = NoScanHistory
    /\ apiResp = NoApiResponse
    /\ apiHist \in {[NoApiHistory EXCEPT !.event = e] : e \in ProbeEvents}
    /\ pager = PagerIdle
    /\ deleter = DeleterIdle
    /\ norm = NormIdle
    /\ runs = NoRuns

NextSystem ==
    \/ ArchiverStart
    \/ ArchiverScan
    \/ ArchiverArchive
    \/ ArchiverDelete
    \/ ScannerStart
    \/ ScannerStep
    \/ Tick
    \/ ApiRequest

SpecSystem == InitSystem /\ [][NextSystem]_vars

SpecAlert == InitAtRest /\ [][NextAlert]_vars

\* two scanner invocations against one table, no archiver run
InitIngest ==
    /\ Init
    /\ bucket = "cspm-archive"
    /\ lastAttr = "ttl_timestamp"

NextIngest ==
    \/ ScannerStart
    \/ ScannerStep
    \/ Scanner2Start
    \/ Scanner2Step

SpecIngest == InitIngest /\ [][NextIngest]_vars

\* invocations by the queue, one after the other
NextQueue ==
    \/ ScannerStartQueued
    \/ ScannerStep

SpecQueue == InitIngest /\ [][NextQueue]_vars

\* the handlers at rest, the table empty, and one of the two functions called
\* on its own with an input of p or of d
InitUnit(p, d) ==
    /\ now = StartNow
    /\ store = [i \in Ids |-> NoItem]
    /\ cold = [k \in {} |-> ArchiveObject(<<>>, 0, 0)]
    /\ bucket = "cspm-archive"
    /\ lastAttr = "ttl_timestamp"
    /\ arch = ArchIdle
    /\ aresp = NoResponse
    /\ ahist = NoHistory
    /\ archDeleted = {}
    /\ scan = ScanIdle
    /\ sresp = NoScanResponse
    /\ shist = NoScanHistory
    /\ alertCall = NoAlertCall
    /\ outbox = <<>>
    /\ scan2 = ScanIdle
    /\ sresp2 = NoScanResponse
    /\ shist2 = NoScanHistory
    /\ apiResp = NoApiResponse
    /\ apiHist = NoApiHistory
    /\ pager \in p
    /\ deleter \in d
    /\ norm = NormIdle
    /\ runs = NoRuns

NextPages == GetExpiredScan
SpecPages == InitUnit({PagerCalled(t) : t \in PagedTables}, {DeleterIdle}) /\ [][NextPages]_vars

NextDelete == DeleteBatch
SpecDelete == InitUnit({PagerIdle}, {DeleterCalled(f) : f \in FindingLists}) /\ [][NextDelete]_vars

\* process_finding and calculate_ttl_timestamp called on their own, at any
\* time of the day
InitNormalize ==
    /\ now \in CallTimes
    /\ store = [i \in Ids |-> NoItem]
    /\ cold = [k \in {} |-> ArchiveObject(<<>>, 0, 0)]
    /\ bucket = "cspm-archive"
    /\ lastAttr = "ttl_timestamp"
    /\ arch = ArchIdle
    /\ aresp = NoResponse
    /\ ahist = NoHistory
    /\ archDeleted = {}
    /\ scan = ScanIdle
    /\ sresp = NoScanResponse
    /\ shist = NoScanHistory
    /\ alertCall = NoAlertCall
    /\ outbox = <<>>
    /\ scan2 = ScanIdle
    /\ sresp2 = NoScanResponse
    /\ shist2 = NoScanHistory
    /\ apiResp = NoApiResponse
    /\ apiHist = NoApiHistory
    /\ pager = PagerIdle
    /\ deleter = DeleterIdle
    /\ norm \in {FindingGiven(f) : f \in AllRawFindings}
                  \cup {DaysGiven(d) : d \in DayCounts}
    /\ runs = NoRuns

NextNormalize ==
    \/ ProcessFinding
    \/ CalculateTtl

SpecNormalize == InitNormalize /\ [][NextNormalize]_vars

\* the archiver run again and again against one table, the clock ticking,
\* no ingestion
NextRerun ==
    \/ RerunStart
    \/ ArchiverScan
    \/ ArchiverArchive
    \/ ArchiverDelete
    \/ Tick

InitRerun == Init /\ bucket = "cspm-archive"

SpecRerun == InitRerun /\ [][NextRerun]_vars

\* ------------------------------------------------------------- claims
ArchiverReturned == arch.pc = "done"
ScannerReturned == scan.pc = "done"

\* C1: a delete is issued only after the archive phase returned a count equal
\* to the number of expired records found; when the count is lower (no bucket
\* configured: nothing written, 0 returned) the run returns 500 with
\* findings_deleted = 0 and has removed nothing from the table.
C1_DeleteOnlyAfterFullArchive ==
    /\ ahist.deleteIssued => (ahist.archiveReturned /\ ahist.archived = ahist.found)
    /\ (bucket = "" /\ ahist.archiveReturned) => (ahist.archived = 0 /\ ~ahist.s3Written)
    /\ (ArchiverReturned /\ ahist.archiveReturned /\ ahist.archived < ahist.found) =>
        /\ aresp.statusCode = 500
        /\ aresp.counts
        /\ aresp.findings_deleted = 0
        /\ ~ahist.deleteIssued
        /\ ahist.removed = 0

C1_Witness ==
    /\ ArchiverReturned
    /\ bucket = ""
    /\ ahist.archiveReturned
    /\ ahist.found > 0
    /\ aresp.statusCode = 500

\* C2: every item version an archiver run removed from the table is in an
\* archive object that is still in the bucket, unless a run that started at
\* the same time as the removing run wrote an object afterwards (runs that
\* start at different times write under different keys).
C2_DeletedStaysArchived ==
    \A d \in archDeleted :
        \/ \E k \in DOMAIN cold : d.item \in SeqToSet(cold[k].findings)
        \/ \E k \in DOMAIN cold : cold[k].run = d.run

C4_CountsOrdered ==
    aresp.counts =>
        /\ aresp.findings_deleted <= aresp.findings_archived
        /\ aresp.findings_archived <= aresp.findings_processed
        /\ aresp.findings_processed = ahist.found

C4_Witness ==
    /\ aresp.counts
    /\ aresp.findings_processed = 2
    /\ aresp.findings_deleted = 2

\* C5: a run whose configuration was resolved returns 200 exactly when the
\* three counts are equal, and every other run returns 500 with the three
\* counts.
C5_FailureCarriesCounts ==
    (ArchiverReturned /\ ahist.configResolved) =>
        /\ aresp.statusCode = 200 <=>
              /\ aresp.counts
              /\ aresp.findings_processed = aresp.findings_archived
              /\ aresp.findings_archived = aresp.findings_deleted
        /\ aresp.statusCode # 200 => (aresp.statusCode = 500 /\ aresp.counts)

\* C6: a run whose delete phase removed some but fewer records than were
\* archived returns the partial-deletion response, with findings_archived the
\* found count and findings_deleted the number of records removed.
C6_PartialDeletionReported ==
    (ArchiverReturned /\ ahist.deleteIssued /\ ahist.removed > 0
        /\ ahist.removed < ahist.archived) =>
        aresp = CountsResponse(500, MsgPartial, ahist.found, ahist.found, ahist.removed)

\* C7: a run whose scan found nothing below the cutoff returns 200 with the
\* three counts zero and has issued no put_object and no delete.
C7_NoOp ==
    (ArchiverReturned /\ ahist.scanned /\ ahist.found = 0) =>
        /\ aresp = CountsResponse(200, MsgNoExpired, 0, 0, 0)
        /\ ~ahist.s3Written
        /\ ~ahist.deleteIssued
        /\ ahist.removed = 0

C7_Witness ==
    /\ ArchiverReturned
    /\ ahist.scanned
    /\ ahist.found = 0
    /\ aresp.statusCode = 200
    /\ \E i \in Ids : store[i] # NoItem

\* C8: an invocation whose findings all have an Id and a Severity label and
\* whose puts all succeeded returns 200 with findings_stored =
\* findings_processed = the batch size.
C8_AllStored ==
    (ScannerReturned /\ shist.wellFormed /\ ~shist.putFailed) =>
        /\ sresp.statusCode = 200
        /\ sresp.findings_processed = shist.resolved
        /\ sresp.findings_stored = shist.resolved

\* C9: process_finding returns None for every raw finding whose Id is absent,
\* null or empty; no put is issued for such a finding, it is counted as
\* processed and not as stored, the batch goes on, and the table holds no
\* item with an empty or null id.
C9_NoIdNotStored ==
    /\ \A f \in AllRawFindings : BadId(f) => process_finding(f, now) = None
    /\ shist.badIdPuts = 0
    /\ ScannerReturned =>
        /\ sresp.findings_processed = shist.resolved
        /\ sresp.findings_stored <= shist.resolved - shist.badIds
    /\ \A i \in Ids : store[i] # NoItem => store[i].id \notin {"", Null, Absent}

C9_Witness ==
    /\ ScannerReturned
    /\ shist.badIds >= 1
    /\ sresp.findings_processed = 2
    /\ sresp.findings_stored = 0
    /\ shist.putsIssued = 0

\* C10: the response has findings_processed = the length of the resolved
\* findings list and findings_stored = the number of successful puts of the
\* invocation, with 0 <= findings_stored <= findings_processed.
C10_CountsExact ==
    ScannerReturned =>
        /\ sresp.statusCode = 200
        /\ sresp.findings_processed = shist.resolved
        /\ sresp.findings_stored = shist.puts
        /\ 0 <= sresp.findings_stored
        /\ sresp.findings_stored <= sresp.findings_processed

C10_Witness ==
    /\ ScannerReturned
    /\ shist.resolved = 2
    /\ shist.badIds = 1
    /\ sresp.findings_processed = 2

\* C11: an ingest invocation that has resolved the store configuration does
\* not raise: it returns a status-200 response with the two counts.
C11_NeverRaisesOnceStarted ==
    /\ scan.pc = "raised" => ~shist.configResolved
    /\ (ScannerReturned /\ shist.configResolved) => sresp.statusCode = 200

C14_ConfigFailureNoEffect ==
    /\ (scan.pc = "raised" /\ ~shist.configResolved) =>
        /\ shist.putsIssued = 0
        /\ shist.alerts = <<>>
        /\ sresp = NoScanResponse
    /\ (ArchiverReturned /\ ~ahist.configResolved) =>
        /\ aresp.statusCode = 500
        /\ aresp.message = MsgArchivalFailed
        /\ ~aresp.counts
        /\ ~ahist.scanIssued
        /\ ~ahist.s3Written
        /\ ~ahist.deleteIssued
        /\ ahist.removed = 0
    /\ (apiHist.called /\ apiHist.configFailed) =>
        /\ apiResp = ErrorResponse(500, MsgInternal)
        /\ apiHist.calls = <<>>

C14_Witness ==
    /\ scan.pc = "raised"
    /\ ~shist.configResolved
    /\ ArchiverReturned
    /\ ~ahist.configResolved
    /\ aresp.statusCode = 500
    /\ apiHist.called
    /\ apiHist.configFailed
    /\ apiResp.statusCode = 500
    /\ store["f1"] # NoItem

\* the ids of records an archiver run has removed from the table
ArchivedIds == {d.item.id : d \in archDeleted}

\* C15: after an invocation that was given the same well-formed finding
\* twice in one batch and met no store error, the table holds a record with
\* that id (unless an archiver run removed it).
C15_SameFindingTwiceOneRecord ==
    (ScannerReturned /\ shist.wellFormed /\ ~shist.putFailed /\ shist.resolved = 2
        /\ Cardinality(shist.ids) = 1) =>
        \A i \in shist.ids : store[i] # NoItem \/ i \in ArchivedIds

\* C16: when two invocations that ran at the same time were both given a
\* well-formed finding of the same id and met no store error, the table holds
\* a record with that id and a fresh ttl_timestamp, and each invocation has
\* counted its write.
C16_TwoWritersOneRecord ==
    (scan.pc = "done" /\ scan2.pc = "done" /\ ~shist.putFailed /\ ~shist2.putFailed
        /\ shist.ids \cap shist2.ids # {}) =>
        /\ \A i \in shist.ids \cap shist2.ids :
              store[i] # NoItem /\ store[i].ttl_timestamp >= now
        /\ sresp.findings_stored >= 1
        /\ sresp2.findings_stored >= 1

FindingsAnswered ==
    /\ apiHist.called
    /\ apiHist.event.httpMethod = "GET"
    /\ apiHist.event.path = "/findings"
\* the collaborators of the request worked
ApiCollaboratorsOk == ~apiHist.configFailed /\ ~apiHist.storeFailed

\* C18: a GET /findings request with limit 0, 1001, -1 or a non-numeric
\* string gets 400 without a configuration lookup or store call; no list call
\* is made with a limit outside 1..1000; a list request with limit 1 or 1000
\* (severity absent or valid, no id) is answered 200 after exactly one store
\* call with that limit.
C18_LimitValidated ==
    /\ (FindingsAnswered /\ apiHist.event.limit \in {"0", "1001", "-1", "abc", ""}) =>
        /\ apiResp.statusCode = 400
        /\ apiHist.configLookups = 0
        /\ apiHist.calls = <<>>
    /\ FindingsAnswered =>
        \A n \in 1..Len(apiHist.calls) :
            apiHist.calls[n].op \in {"query", "scan"} =>
                apiHist.calls[n].limit \in 1..1000
    /\ \A l \in {1, 1000} :
        (FindingsAnswered /\ ApiCollaboratorsOk
            /\ apiHist.event.limit = (IF l = 1 THEN "1" ELSE "1000")
            /\ apiHist.event.severity \in {Absent, "CRITICAL", "LOW"}
            /\ apiHist.event.id = Absent) =>
            /\ apiResp.statusCode = 200
            /\ Len(apiHist.calls) = 1
            /\ apiHist.calls[1].limit = l

C18_Witness ==
    /\ FindingsAnswered
    /\ apiHist.event.limit = "1000"
    /\ apiHist.event.id = Absent
    /\ apiResp.statusCode = 200
    /\ Len(apiHist.calls) = 1
    /\ apiHist.calls[1].limit = 1000
    /\ apiResp.count = 2

\* C19: a GET /findings request that carries a severity other than the five
\* labels gets 400 with the message listing them, and no store call is made.
C19_SeverityValidated ==
    (FindingsAnswered
        /\ apiHist.event.severity \notin
              {Absent, "CRITICAL", "HIGH", "MEDIUM", "LOW", "INFORMATIONAL"}) =>
        /\ apiResp.statusCode = 400
        /\ apiResp.error = MsgInvalidSeverity
        /\ apiHist.calls = <<>>

\* C20: a GET /findings request with an id and no other parameter: an empty
\* id or one longer than 256 characters gets 400 without a store read; with
\* the collaborators working, an id of 1..256 characters gets 200 with the
\* stored record when the table holds one, and 404 'Finding not found' when
\* it does not.
C20_GetById ==
    LET id == apiHist.event.id
        held == id \in Ids /\ store[id] # NoItem
    IN (FindingsAnswered /\ id # Absent /\ apiHist.event.severity = Absent
            /\ apiHist.event.limit = Absent) =>
        /\ (Len(id) = 0 \/ Len(id) > 256) =>
            /\ apiResp.statusCode = 400
            /\ apiHist.configLookups = 0
            /\ apiHist.calls = <<>>
        /\ (Len(id) >= 1 /\ Len(id) <= 256 /\ ApiCollaboratorsOk) =>
            /\ apiHist.calls = <<StoreCall("get_item", Absent, 0, id)>>
            /\ held =>
                /\ apiResp.statusCode = 200
                /\ apiResp.success = "true"
                /\ apiResp.data.kind = "item"
                /\ apiResp.data.item.id = id
                /\ apiResp.data.item.severity = store[id].severity
                /\ apiResp.data.item.ttl_timestamp = Float(store[id].ttl_timestamp)
            /\ ~held =>
                /\ apiResp.statusCode = 404
                /\ apiResp.error = MsgNotFound
                /\ apiResp.data.kind = "none"

C20_Witness ==
    /\ FindingsAnswered
    /\ apiHist.event.id = "f1"
    /\ apiHist.event.severity = Absent
    /\ apiHist.event.limit = Absent
    /\ apiResp.statusCode = 200
    /\ apiResp.data.kind = "item"
    /\ apiResp.data.item.id = "f1"

\* C21: every response of the query handler carries a boolean success field
\* and a timestamp, has a status among 200, 400, 404, 405, 500, and has
\* success true exactly when the status is 200.
C21_Envelope ==
    apiHist.called =>
        /\ apiResp.success \in {"true", "false"}
        /\ apiResp.timestamp
        /\ apiResp.statusCode \in {200, 400, 404, 405, 500}
        /\ apiResp.success = "true" <=> apiResp.statusCode = 200

\* a GET /summary request has been answered
SummaryAnswered ==
    /\ apiHist.called
    /\ apiHist.event.httpMethod = "GET"
    /\ apiHist.event.path = "/summary"

\* C23: the response to a summary request on an empty table whose count
\* queries all worked differs from the response to the same request on any
\* table whose five count queries all failed.
C23_EmptyVsFallback ==
    (SummaryAnswered /\ ApiCollaboratorsOk /\ ~apiHist.countFailed
        /\ store = [i \in Ids |-> NoItem]) =>
        \A t \in ApiStores :
            api_lambda_handler(apiHist.event, t, "ok", "ok",
                               {"CRITICAL", "HIGH", "MEDIUM", "LOW", "INFORMATIONAL"}).resp
                # apiResp

\* the number of records of a severity in the table
SeverityCount(table, sev) ==
    Cardinality({i \in Ids : table[i] # NoItem /\ table[i].severity = sev})

RECURSIVE BreakdownSum(_)
\* the sum of the values of a severity breakdown
BreakdownSum(bd) ==
    IF DOMAIN bd = {} THEN 0
    ELSE LET sev == CHOOSE x \in DOMAIN bd : TRUE
         IN bd[sev] + BreakdownSum([x \in DOMAIN bd \ {sev} |-> bd[x]])

\* the sum of the five counts of the table
FiveCounts(table) ==
    SeverityCount(table, "CRITICAL") + SeverityCount(table, "HIGH")
        + SeverityCount(table, "MEDIUM") + SeverityCount(table, "LOW")
        + SeverityCount(table, "INFORMATIONAL")

\* C24 as amended: in every summary result total_findings is the sum of the
\* values of severity_breakdown; when the five count queries return counts
\* that are not all zero, total_findings is their sum and severity_breakdown
\* has an entry, the count, for each severity whose count is not zero, and no
\* entry for a severity whose count is zero.
C24_SummarySums ==
    (SummaryAnswered /\ apiResp.statusCode = 200) =>
        LET bd == apiResp.data.severity_breakdown
        IN /\ apiResp.data.kind = "summary"
           /\ apiResp.data.total_findings = BreakdownSum(bd)
           /\ (~apiHist.countFailed /\ FiveCounts(store) > 0) =>
               /\ apiResp.data.total_findings = FiveCounts(store)
               /\ \A sev \in {"CRITICAL", "HIGH", "MEDIUM", "LOW", "INFORMATIONAL"} :
                     IF SeverityCount(store, sev) > 0
                     THEN sev \in DOMAIN bd /\ bd[sev] = SeverityCount(store, sev)
                     ELSE sev \notin DOMAIN bd

C24_Witness ==
    /\ SummaryAnswered
    /\ apiResp.statusCode = 200
    /\ ~apiHist.countFailed
    /\ apiResp.data.total_findings = 2
    /\ DOMAIN apiResp.data.severity_breakdown = {"CRITICAL", "LOW"}
    /\ Len(apiHist.calls) = 5

\* C24 as stated: when the five count queries return counts that are not all
\* zero, severity_breakdown gives each of the five severities its count.
C24_AllFiveEntries ==
    (SummaryAnswered /\ apiResp.statusCode = 200 /\ ~apiHist.countFailed
        /\ FiveCounts(store) > 0) =>
        /\ apiResp.data.total_findings = FiveCounts(store)
        /\ \A sev \in {"CRITICAL", "HIGH", "MEDIUM", "LOW", "INFORMATIONAL"} :
              /\ sev \in DOMAIN apiResp.data.severity_breakdown
              /\ apiResp.data.severity_breakdown[sev] = SeverityCount(store, sev)

\* C25: a request whose verb is neither GET nor OPTIONS gets 405 with success
\* false and error 'Method not allowed', whatever its path and parameters,
\* without a configuration lookup or a store call.
C25_MethodNotAllowed ==
    (apiHist.called /\ apiHist.event.httpMethod \notin {"GET", "OPTIONS"}) =>
        /\ apiResp.statusCode = 405
        /\ apiResp.success = "false"
        /\ apiResp.error = "Method not allowed"
        /\ apiResp.data.kind = "none"
        /\ apiHist.configLookups = 0
        /\ apiHist.calls = <<>>

C25_Witness ==
    /\ apiHist.called
    /\ apiHist.event.httpMethod = "POST"
    /\ apiHist.event.path = "/findings"
    /\ apiHist.event.id = "f1"
    /\ apiResp.statusCode = 405
    /\ store["f1"] # NoItem

\* C22: the error message of a failure response of the query handler and of
\* the archiver is one of a fixed set of strings, and the archiver's response
\* to a failed configuration lookup is the same whatever error code the
\* lookup reported.
C22_FailureBodyFixed ==
    /\ (apiHist.called /\ apiResp.statusCode \notin {0, 200}) =>
        apiResp.error \in
            {"Invalid severity. Must be one of: CRITICAL, HIGH, MEDIUM, LOW, INFORMATIONAL",
             "Invalid limit. Must be a number between 1 and 1000",
             "Invalid finding ID format", "Finding not found", "Method not allowed",
             "Invalid request parameters", "Internal server error"}
    /\ (ArchiverReturned /\ aresp.statusCode = 500) =>
        /\ aresp.message \in {MsgArchivalFailed, MsgArchivalFailedNoDelete, MsgPartial}
        /\ aresp.error \in {MsgArchivalFailed, MsgArchiveIncomplete, MsgDeleteIncomplete,
                            "Internal server error"}
    /\ (ArchiverReturned /\ ~ahist.configResolved) =>
        \A code \in SsmErrorCodes :
            aresp = ExceptionResponse(ClientErrorText(code, "GetParameter"))

\* C30: an invocation whose event carries findings in none of the three
\* accepted shapes, or whose sub-message cannot be read, returns 200 with
\* findings_processed = 0 and findings_stored = 0, has issued no put, and
\* has not raised.
C30_OtherShapeIsEmpty ==
    (scan.pc \in {"done", "raised"} /\ shist.configResolved
        /\ shist.shape \in {"unmatched", "unreadable"}) =>
        /\ scan.pc = "done"
        /\ sresp = ScanResponse(0, 0)
        /\ shist.putsIssued = 0

\* C26: get_expired_findings issues no scan after the response of the
\* table's last page, whose LastEvaluatedKey is absent or null; it raises
\* only when a scan failed; when it returns it has issued one scan per page
\* and returns the items of all pages.
C26_PaginatesToTheEnd ==
    /\ pager.scans <= Len(pager.table.pages)
    /\ pager.pc = "raised" => pager.failed
    /\ pager.pc = "done" =>
        /\ pager.scans = Len(pager.table.pages)
        /\ pager.items = Flatten(pager.table.pages)
    /\ (pager.pc = "scan" /\ pager.scans > 0) => pager.scans < Len(pager.table.pages)

\* a rerun of the archiver has returned after completing its scan, the run
\* before it having returned 200
RerunAfterSuccess ==
    /\ ArchiverReturned
    /\ runs.afterSuccess
    /\ ahist.scanned

C28_RerunCompletes ==
    (ArchiverReturned /\ runs.failedBefore /\ aresp.statusCode = 200) =>
        /\ \A i \in Ids :
              store[i] # NoItem =>
                  store[i].ttl_timestamp >= runs.started - RETENTION_DAYS * DayLen
        /\ \A d \in archDeleted :
              \E k \in DOMAIN cold : d.item \in SeqToSet(cold[k].findings)

\* C29: delete_archived_findings issues deletes only for ids of the findings
\* it was given, in batches of at most 25; when it returns it has issued
\* exactly one delete per finding, keyed by its id, in ceil(n/25) batches,
\* and returns n.
C29_OneDeletePerRecord ==
    LET n == Len(deleter.findings)
    IN /\ \A k \in 1..Len(deleter.deletes) :
             \E j \in 1..n : deleter.findings[j].id = deleter.deletes[k]
       /\ deleter.largest <= 25
       /\ deleter.pc = "done" =>
           /\ Len(deleter.deletes) = n
           /\ \A j \in 1..n : deleter.deletes[j] = deleter.findings[j].id
           /\ deleter.writers = (n + 24) \div 25
           /\ deleter.deleted_count = n

C29_Witness ==
    /\ deleter.pc = "done"
    /\ Len(deleter.findings) = 51
    /\ deleter.writers = 3
    /\ Len(deleter.deletes) = 51

\* C31: an invocation given an event of several sub-messages (records of the
\* queue), the first of them readable, processes the findings of the first
\* sub-message only: findings_processed is the size of its findings list, and
\* no finding carried only by a later sub-message is normalized, put or
\* alerted on.
C31_FirstSubMessageOnly ==
    (shist.configResolved /\ shist.subMessages >= 2 /\ scan.pc \in {"loop", "done"}) =>
        /\ shist.resolved = shist.first
        /\ shist.ids \cap shist.laterIds = {}
        /\ \A n \in 1..Len(shist.alerts) : shist.alerts[n].finding_id \notin shist.laterIds
        /\ ScannerReturned =>
            /\ sresp.statusCode = 200
            /\ sresp.findings_processed = shist.first

C31_Witness ==
    /\ ScannerReturned
    /\ shist.subMessages = 3
    /\ shist.first = 2
    /\ shist.laterIds = {"f2"}
    /\ shist.ids = {"f1"}
    /\ sresp.findings_processed = 2

\* C32: for a raw finding with a valid Id, process_finding returns an item
\* whose resource_type and resource_id are those of the first entry of the
\* Resources list when the list has entries, and are both the empty string
\* when the list is absent or empty.
C32_FirstResourceOrEmpty ==
    (norm.pc = "normalized" /\ norm.finding.kind = "dict" /\ norm.finding.Id \in Ids
        /\ norm.finding.Severity # Null) =>
        /\ norm.item # None
        /\ norm.finding.Resources \in {"1", "2"} =>
            /\ norm.resource_type = "AwsEc2Instance"
            /\ norm.resource_id = "i-123"
        /\ norm.finding.Resources \in {Absent, "0"} =>
            /\ norm.resource_type = ""
            /\ norm.resource_id = ""

\* C33: calculate_ttl_timestamp(d) returns midnight UTC of the current day
\* plus d days, in epoch seconds; for d >= 1 that is later than the time of
\* the call; every item process_finding returns carries that value for the
\* configured number of days.
C33_TtlIsMidnightPlusDays ==
    /\ norm.pc = "calculated" =>
        /\ ~norm.ttl.raised
        /\ norm.ttl.value = now - (now % DayLen) + norm.days_from_now * DayLen
        /\ norm.days_from_now >= 1 => norm.ttl.value > now
    /\ (norm.pc = "normalized" /\ norm.item # None) =>
        norm.item.ttl_timestamp = now - (now % DayLen) + DYNAMODB_TTL_DAYS * DayLen

\* the sum of the counts of the severities whose count query worked
SuccessfulCounts(table, failed) ==
    SumSeq([n \in 1..5 |->
        LET sev == <<"CRITICAL", "HIGH", "MEDIUM", "LOW", "INFORMATIONAL">>[n]
        IN IF sev \in failed THEN 0 ELSE SeverityCount(table, sev)])

\* the number of records of the table the fallback counts under sev
CountedUnder(table, sev) ==
    Cardinality({i \in Ids :
        /\ table[i] # NoItem
        /\ IF table[i].severity = Absent THEN sev = "UNKNOWN" ELSE sev = table[i].severity})

\* the fallback scan is among the store calls of the request
FallbackScanned == \E n \in 1..Len(apiHist.calls) : apiHist.calls[n].op = "scan"

\* C34: summary performs the fallback scan exactly when the counts of the
\* count queries that worked sum to zero; the scan is one call with Limit
\* 1000, which reads at most that many items, so total_findings is at most
\* 1000; the result counts each record under its own severity, and a record
\* without a severity under UNKNOWN.
C34_FallbackWhenCountsZero ==
    /\ \A l \in 0..2 : Len(TableScan(store, l)) <= l
    /\ (SummaryAnswered /\ ~apiHist.configFailed) =>
        /\ FallbackScanned <=> SuccessfulCounts(store, apiHist.failed) = 0
        /\ FallbackScanned =>
            /\ Len(apiHist.calls) = 6
            /\ apiHist.calls[6] = [op |-> "scan", severity |-> Absent, limit |-> 1000,
                                    key |-> Absent]
        /\ (FallbackScanned /\ apiResp.statusCode = 200) =>
            LET bd == apiResp.data.severity_breakdown
            IN /\ apiResp.data.total_findings <= 1000
               /\ apiResp.data.total_findings
                      = Cardinality({i \in Ids : store[i] # NoItem})
               /\ \A sev \in {"CRITICAL", "HIGH", "MEDIUM", "LOW", "INFORMATIONAL",
                                "BOGUS", "UNKNOWN", Absent} :
                     IF CountedUnder(store, sev) > 0
                     THEN sev \in DOMAIN bd /\ bd[sev] = CountedUnder(store, sev)
                     ELSE sev \notin DOMAIN bd

C34_Witness ==
    /\ SummaryAnswered
    /\ apiResp.statusCode = 200
    /\ FallbackScanned
    /\ apiHist.failed = {"CRITICAL"}
    /\ store["f1"].severity = "CRITICAL"
    /\ store["f2"] # NoItem
    /\ store["f2"].severity = Absent
    /\ apiResp.data.total_findings = 2
    /\ apiResp.data.severity_breakdown = [sev \in {"CRITICAL", "UNKNOWN"} |-> 1]

\* C35: whatever the request and its outcome, the store calls of the query
\* handler are query, scan and get_item only, and the table after the request
\* is the table before it.
C35_QueryLeavesStore ==
    /\ [](apiHist.called =>
            \A n \in 1..Len(apiHist.calls) :
                apiHist.calls[n].op \in {"query", "scan", "get_item"})
    /\ [][(~apiHist.called /\ apiHist'.called) => store' = store]_vars

C35_Witness ==
    /\ SummaryAnswered
    /\ apiHist.storeFailed
    /\ apiResp.statusCode = 500
    /\ Len(apiHist.calls) = 6
    /\ \A i \in Ids : store[i] # NoItem

\* C36: in a GET /findings request the checks run in the order severity,
\* limit, id and the first that fails gives the 400 response: a severity
\* other than the five labels gives the severity message whatever the limit
\* and the id; else a limit that is no number in 1..1000 gives the limit
\* message whatever the id; else an empty or overlong id gives the id
\* message; a lookup by id with such a severity or limit gets 400 without a
\* configuration lookup or a store call.
C36_ChecksInOrder ==
    FindingsAnswered =>
        LET sevBad == apiHist.event.severity \notin
                          {Absent, "CRITICAL", "HIGH", "MEDIUM", "LOW", "INFORMATIONAL"}
            limBad == apiHist.event.limit \in {"0", "1001", "-1", "abc", ""}
            idBad == /\ apiHist.event.id # Absent
                     /\ (Len(apiHist.event.id) = 0 \/ Len(apiHist.event.id) > 256)
        IN /\ sevBad =>
               /\ apiResp.statusCode = 400
               /\ apiResp.error =
                    "Invalid severity. Must be one of: CRITICAL, HIGH, MEDIUM, LOW, INFORMATIONAL"
           /\ (~sevBad /\ limBad) =>
               /\ apiResp.statusCode = 400
               /\ apiResp.error = "Invalid limit. Must be a number between 1 and 1000"
           /\ (~sevBad /\ ~limBad /\ idBad) =>
               /\ apiResp.statusCode = 400
               /\ apiResp.error = "Invalid finding ID format"
           /\ (apiHist.event.id # Absent /\ (sevBad \/ limBad)) =>
               /\ apiResp.statusCode = 400
               /\ apiHist.configLookups = 0
               /\ apiHist.calls = <<>>

\* the table without the records of the given severities
WithoutSeverities(table, sevs) ==
    [i \in Ids |-> IF table[i] # NoItem /\ table[i].severity \in sevs
                   THEN NoItem ELSE table[i]]

\* C37: when the count query fails for some severities and gives a count
\* above zero for another, the summary request is answered 200 with
\* total_findings the sum of the counts that were obtained, after the five
\* count queries and no scan, and the response is the one the same request
\* gets, with no failure, on the table without the records of the failed
\* severities.
C37_PartialCountsUnmarked ==
    (SummaryAnswered /\ ~apiHist.configFailed /\ apiHist.failed # {}
        /\ SuccessfulCounts(store, apiHist.failed) > 0) =>
        /\ apiResp.statusCode = 200
        /\ apiResp.success = "true"
        /\ apiResp.data.kind = "summary"
        /\ apiResp.data.total_findings = SuccessfulCounts(store, apiHist.failed)
        /\ Len(apiHist.calls) = 5
        /\ ~FallbackScanned
        /\ apiResp = api_lambda_handler(apiHist.event,
                                        WithoutSeverities(store, apiHist.failed),
                                        "ok", "ok", {}).resp

C37_Witness ==
    /\ SummaryAnswered
    /\ apiHist.failed = {"CRITICAL"}
    /\ store["f1"].severity = "CRITICAL"
    /\ store["f2"].severity = "LOW"
    /\ apiResp.statusCode = 200
    /\ apiResp.data.total_findings = 1
    /\ apiResp.data.severity_breakdown = [sev \in {"LOW"} |-> 1]

\* C38: a GET request whose path ends in none of /findings, /summary and
\* /health gets 405 with success false and error 'Method not allowed', the
\* response the same request gets with the verb POST, without a
\* configuration lookup or a store call.
C38_UnknownPathIs405 ==
    (apiHist.called /\ apiHist.event.httpMethod = "GET"
        /\ apiHist.event.path \in {"/other", Absent, "/findings/", "/summary/daily",
                                   "/healthz", ""}) =>
        /\ apiResp.statusCode = 405
        /\ apiResp.success = "false"
        /\ apiResp.error = "Method not allowed"
        /\ apiResp.data.kind = "none"
        /\ apiResp = api_lambda_handler([apiHist.event EXCEPT !.httpMethod = "POST"],
                                        store, "ok", "ok", {}).resp
        /\ apiHist.configLookups = 0
        /\ apiHist.calls = <<>>

C38_Witness ==
    /\ apiHist.called
    /\ apiHist.event.httpMethod = "GET"
    /\ apiHist.event.path = "/findings/"
    /\ apiResp.statusCode = 405
    /\ \A i \in Ids : store[i] # NoItem
====
